---- MODULE Spec2Model ----
(***************************************************************************)
(* A model of HMASR_postprocess.py: the raster loader/array builder        *)
(* (geotiff2xr), the file selector (select_tif), the masked aggregation    *)
(* and series assembly (swe_means) and the part of main that writes the    *)
(* CSV.                                                                    *)
(*                                                                         *)
(* Representation.                                                         *)
(*  - A string is a sequence of tokens; "k in s" is token membership and   *)
(*    s.endswith(t) compares the last token.                               *)
(*  - A pixel value is an integer count of 10^-(Digits+1); a mean is an    *)
(*    exact reduced fraction of such counts or NaN; a rounded value is an  *)
(*    integer count of 10^-Digits or NaN.                                  *)
(*  - A band stack of n bands is held as a cycle of grids: band k is       *)
(*    cycle[((k-1) % Len(cycle)) + 1].                                     *)
(*  - A date is <<year, month, day>>; the date axis is computed on day     *)
(*    ordinals, as pandas computes it on timestamps.                       *)
(***************************************************************************)
EXTENDS Integers, Sequences, FiniteSets, TLC

\* ---------------------------------------------------------------- bounds
MaxYears == 2
MaxLayers == 2
MaxBands == 2

\* ------------------------------------------------------ program constants
FirstYear == 1999
Digits == 4
StartMonth == 10
StartDay == 1
EndMonth == 9
EndDay == 30

\* float('nan') is the fraction 0/0; Python's None is a record of its own.
NaN == [num |-> 0, den |-> 0]
None == [none |-> TRUE]
NoError == "none"

\* ---------------------------------------------------------------- helpers
Range(s) == { s[i] : i \in 1..Len(s) }

Contains(s, k) == \E i \in 1..Len(s) : s[i] = k

EndsWith(s, t) == Len(s) > 0 /\ s[Len(s)] = t

Min(a, b) == IF a <= b THEN a ELSE b

RECURSIVE GCD(_, _)
GCD(a, b) == IF b = 0 THEN a ELSE GCD(b, a % b)

RECURSIVE Pow10(_)
Pow10(n) == IF n = 0 THEN 1 ELSE 10 * Pow10(n - 1)

RECURSIVE SumOver(_, _)
SumOver(f, S) ==
    IF S = {} THEN 0
    ELSE LET p == CHOOSE q \in S : TRUE IN f[p] + SumOver(f, S \ {p})

RECURSIVE Flat(_)
Flat(ss) == IF ss = <<>> THEN <<>> ELSE Head(ss) \o Flat(Tail(ss))

RECURSIVE Filter(_, _)
Filter(s, keep) ==
    IF s = <<>> THEN <<>>
    ELSE (IF Head(s) \in keep THEN <<Head(s)>> ELSE <<>>) \o Filter(Tail(s), keep)

\* A fraction num/den in lowest terms (den > 0).
Frac(n, d) == LET g == GCD(n, d) IN [num |-> n \div g, den |-> d \div g]

\* ------------------------------------------------------------ file system
\* os.path.join(directory, file)
Join(directory, file) == directory \o <<"/">> \o file

Years == FirstYear..(FirstYear + MaxYears - 1)

Shapes == { <<1, 1>>, <<1, 2>>, <<2, 1>> }
Vals == { 0, 17 }
MaskVals == { 0, 1 }
BandCounts == { 365, 366 }

Pixels(h, w) == (1..h) \X (1..w)

Transform == [a |-> 1, c |-> 0, e |-> -1, f |-> 0]

File(name, h, w, n, cycle) ==
    [name |-> name, crs |-> "EPSG:4326", transform |-> Transform,
     height |-> h, width |-> w, data |-> [bands |-> n, cycle |-> cycle]]

FileName(var, y) == <<"HMA", var, ToString(y), ".tif">>

\* Every stack of n explicit bands on an h x w grid with values in V.
Stacks(h, w, n, V) == [1..n -> [Pixels(h, w) -> V]]

Const(h, w, v) == [p \in Pixels(h, w) |-> v]

\* A 1 x 1 stack of n bands alternating two values (which one comes first
\* depends on the year), and a 1 x 1 single-layer mask that keeps the pixel.
ArchiveSwe(y, n) ==
    File(FileName("SWE", y), 1, 1, n,
         IF y % 2 = 0 THEN << Const(1, 1, 0), Const(1, 1, 17) >>
                      ELSE << Const(1, 1, 17), Const(1, 1, 0) >>)
ArchiveMask(y) == File(FileName("MASK", y), 1, 1, 1, << Const(1, 1, 0) >>)

\* One year of an archive: no SWE file (0) or one of opt[1] bands, and a MASK
\* file or none (opt[2]).
ArchiveYear(y, opt) ==
    (IF opt[2] THEN << ArchiveMask(y) >> ELSE << >>)
       \o (IF opt[1] = 0 THEN << >> ELSE << ArchiveSwe(y, opt[1]) >>)

\* What the caller passes and finds on disk.
Input(d, ls, s, e, fn, path) ==
    [dir |-> d, listing |-> ls, start_year |-> s, end_year |-> e,
     entry |-> fn, target |-> path]

ArchiveInput(f, s, e) ==
    Input(<< "data" >>,
          Flat([i \in 1..MaxYears |->
                  ArchiveYear(FirstYear + i - 1, f[FirstYear + i - 1])]),
          s, e, "main", << >>)

\* One year, SWE of shape ss and MASK of shape sm.
GridInput(sm, m, ss, v) ==
    Input(<< "data" >>,
          << File(FileName("MASK", FirstYear), sm[1], sm[2], Len(m), m),
             File(FileName("SWE", FirstYear), ss[1], ss[2], Len(v), v) >>,
          FirstYear, FirstYear, "main", << >>)

\* Directories and file names: several files matching one year, a name
\* holding both keywords, a name holding neither, a file that is no .tif,
\* and directories whose own name holds a keyword.
Tiny(name, v) == File(name, 1, 1, 1, << Const(1, 1, v) >>)
M1 == Tiny(FileName("MASK", FirstYear), 0)
S1 == Tiny(FileName("SWE", FirstYear), 17)
M2 == Tiny(<< "HMA", "MASK", ToString(FirstYear), "v2", ".tif" >>, 1)
S2 == Tiny(<< "HMA", "SWE", ToString(FirstYear), "v2", ".tif" >>, 0)
SM == Tiny(<< "HMA", "SWE", "MASK", ToString(FirstYear), ".tif" >>, 0)
X1 == Tiny(<< "HMA", "DEM", ToString(FirstYear), ".tif" >>, 17)
T1 == Tiny(<< "HMA", "SWE", "MASK", ToString(FirstYear), ".txt" >>, 1)

Dirs == { << "data" >>, << "SWE", "archive" >>, << "MASK" >> }
Listings == { << T1, M1, S1, X1 >>,
              << M1, M2, S1, S2 >>,
              << M2, M1, S2, S1 >>,
              << SM, M1, S1 >>,
              << M1, S1, SM >> }

AllFiles == UNION { Range(ls) : ls \in Listings }

\* ------------------------------------------------------------------ state
VARIABLES
    dir,              \* the input directory (args.input_dir)
    listing,          \* os.listdir(dir) with each entry's raster content
    start_year,       \* args.start_year
    end_year,         \* args.end_year
    entry,            \* the function the caller invoked
    target,           \* the path of a direct geotiff2xr call
    pc,               \* position in the program
    year,             \* loop variable of swe_means
    mask_tif,         \* select_tif(input_dir, str(year), "MASK")
    swe_tif,          \* select_tif(input_dir, str(year), "SWE")
    mask,             \* geotiff2xr(mask_tif[0])
    swe,              \* geotiff2xr(swe_tif[0])
    swe_list,         \* per contributing year, mean_swe.values.tolist()
    time_series_data, \* the flat rounded values
    swe_df,           \* the frame swe_means returns
    csv,              \* what main wrote to args.output_csv
    error,            \* the exception that ended the run
    file_path,        \* geotiff2xr's argument
    src,              \* what geotiff2xr read from the open file
    retval,           \* geotiff2xr's return value
    ret_to,           \* where geotiff2xr returns to
    open_files        \* the raster files open right now, in opening order

vars == << dir, listing, start_year, end_year, entry, target, pc, year, mask_tif,
           swe_tif, mask, swe, swe_list, time_series_data, swe_df, csv, error,
           file_path, src, retval, ret_to, open_files >>

inputs == << dir, listing, start_year, end_year, entry, target >>

Start(inp) ==
    /\ dir = inp.dir
    /\ listing = inp.listing
    /\ start_year = inp.start_year
    /\ end_year = inp.end_year
    /\ entry = inp.entry
    /\ target = inp.target
    /\ pc = inp.entry
    /\ year = inp.start_year
    /\ mask_tif = << >>
    /\ swe_tif = << >>
    /\ mask = None
    /\ swe = None
    /\ swe_list = << >>
    /\ time_series_data = << >>
    /\ swe_df = None
    /\ csv = None
    /\ error = NoError
    /\ file_path = << >>
    /\ src = None
    /\ retval = None
    /\ ret_to = "nowhere"
    /\ open_files = << >>

\* Multi-year archives: per year the SWE file is absent (0) or has 365 or 366
\* bands and the MASK file is absent or present; every range of years.
InitArchive ==
    \E f \in [Years -> ({0} \cup BandCounts) \X BOOLEAN], s \in Years, e \in Years :
        s <= e /\ Start(ArchiveInput(f, s, e))

\* One year, SWE and MASK on the same grid: every shape, band count, layer
\* count and pixel content within the bounds.
InitGrid ==
    \E sh \in Shapes, l \in 1..MaxLayers, n \in 1..MaxBands :
        \E m \in Stacks(sh[1], sh[2], l, MaskVals), v \in Stacks(sh[1], sh[2], n, Vals) :
            Start(GridInput(sh, m, sh, v))

\* One year, one band and one layer, SWE and MASK on grids of different shape.
InitMismatch ==
    \E sm \in Shapes, ss \in Shapes :
        /\ sm # ss
        /\ \E m \in Stacks(sm[1], sm[2], 1, MaskVals), v \in Stacks(ss[1], ss[2], 1, Vals) :
              Start(GridInput(sm, m, ss, v))

\* Directories and listings with awkward names, run through main or through
\* a direct call of geotiff2xr on some path.
InitNames ==
    \E d \in Dirs, ls \in Listings :
        \/ Start(Input(d, ls, FirstYear, FirstYear, "main", << >>))
        \/ \E f \in AllFiles :
              Start(Input(d, ls, FirstYear, FirstYear, "geotiff2xr", Join(d, f.name)))

\* One water year on a 1 x 1 grid under either mask: the pixel kept or the
\* pixel excluded.
InitWaterYear ==
    \E y \in Years, n \in BandCounts, m \in Stacks(1, 1, 1, MaskVals) :
        Start(Input(<< "data" >>,
                    << File(FileName("MASK", y), 1, 1, 1, m), ArchiveSwe(y, n) >>,
                    y, y, "main", << >>))

Init == InitArchive \/ InitWaterYear \/ InitGrid \/ InitMismatch \/ InitNames

\* The exception exc leaves the program: nothing is returned or written.
Raise(exc) ==
    /\ error' = exc
    /\ pc' = "crashed"

\* ------------------------------------------------------------- select_tif
select_tif(directory, keyword1, keyword2) ==
    LET names == [i \in 1..Len(listing) |-> listing[i].name]
        keep == { file \in Range(names) :
                    /\ EndsWith(file, ".tif")
                    /\ Contains(file, keyword1)
                    /\ Contains(file, keyword2) }
        kept == Filter(names, keep)
    IN  [i \in 1..Len(kept) |-> Join(directory, kept[i])]

\* -------------------------------------------------------------- geotiff2xr
\* The raster stored under a path of the input directory.
Raster(path) == CHOOSE f \in Range(listing) : Join(dir, f.name) = path

\* np.linspace(start, stop, num)
linspace(start, stop, num) ==
    [i \in 1..num |->
        IF num = 1 THEN start ELSE start + ((i - 1) * (stop - start)) \div (num - 1)]

\* xr.DataArray(data, dims=(dim, "y", "x"), coords={dim: range(1, n + 1), ...})
\* with attrs crs and transform; the first coordinate is held by its length n.
DataArray(data, dim, n, y_coords, x_coords, name, crs, transform) ==
    [name |-> name, dims |-> << dim, "y", "x" >>, n |-> n,
     y |-> y_coords, x |-> x_coords, data |-> data,
     attrs |-> [crs |-> crs, transform |-> transform]]

Exists(path) == \E f \in Range(listing) : Join(dir, f.name) = path

\* rasterio.open(file_path) succeeds: the file is open from here on.
geotiff2xr_open ==
    /\ pc = "g_open"
    /\ Exists(file_path)
    /\ open_files' = Append(open_files, file_path)
    /\ pc' = "g_read"
    /\ UNCHANGED << inputs, year, mask_tif, swe_tif, mask, swe, swe_list,
                    time_series_data, swe_df, csv, error, file_path, src, retval, ret_to >>

\* rasterio.open(file_path) raises (no such file, or not a readable raster):
\* no file was opened.
geotiff2xr_open_fail ==
    /\ pc = "g_open"
    /\ Raise("RasterioIOError")
    /\ UNCHANGED << inputs, year, mask_tif, swe_tif, mask, swe, swe_list,
                    time_series_data, swe_df, csv, file_path, src, retval, ret_to,
                    open_files >>

\* src.read() and the attributes and coordinates derived from the file.
geotiff2xr_read ==
    /\ pc = "g_read"
    /\ LET f == Raster(file_path)
           data == f.data
           transform == f.transform
           height == f.height
           width == f.width
       IN  src' = [data |-> data, transform |-> transform, crs |-> f.crs,
                   height |-> height, width |-> width,
                   number_of_days |-> data.bands,
                   x_coords |-> linspace(transform.c,
                                         transform.c + (width - 1) * transform.a, width),
                   y_coords |-> linspace(transform.f,
                                         transform.f + (height - 1) * transform.e, height)]
    /\ pc' = "g_build"
    /\ UNCHANGED << inputs, year, mask_tif, swe_tif, mask, swe, swe_list,
                    time_series_data, swe_df, csv, error, file_path, retval, ret_to,
                    open_files >>

\* Mutant of Close: the file stays open.
Close_leak(path) ==
    open_files' = open_files

\* The with block closes the file it opened.
Close(path) ==
    open_files' = SubSeq(open_files, 1, Len(open_files) - 1)

\* src.read() raises: the with block closes the file and the exception
\* leaves geotiff2xr.
geotiff2xr_read_fail ==
    /\ pc = "g_read"
    /\ Close(file_path)
    /\ Raise("RasterioIOError")
    /\ UNCHANGED << inputs, year, mask_tif, swe_tif, mask, swe, swe_list,
                    time_series_data, swe_df, csv, file_path, src, retval, ret_to >>

\* The value one of the three return statements evaluates.
Classify(path, s) ==
    IF Contains(path, "SWE")
    THEN DataArray(s.data, "day", s.number_of_days, s.y_coords, s.x_coords,
                   "SWE", s.crs, s.transform)
    ELSE IF Contains(path, "MASK")
    THEN DataArray(s.data, "Non_seasonal_snow", s.number_of_days, s.y_coords,
                   s.x_coords, "Non_seasonal_snow", s.crs, s.transform)
    ELSE None

geotiff2xr_build ==
    /\ pc = "g_build"
    /\ retval' = Classify(file_path, src)
    /\ pc' = "g_exit"
    /\ UNCHANGED << inputs, year, mask_tif, swe_tif, mask, swe, swe_list,
                    time_series_data, swe_df, csv, error, file_path, src, ret_to,
                    open_files >>

\* Leaving the with block on a return: the file is closed, then the caller
\* gets the value.
geotiff2xr_exit ==
    /\ pc = "g_exit"
    /\ Close(file_path)
    /\ mask' = IF ret_to = "mask" THEN retval ELSE mask
    /\ swe' = IF ret_to = "swe" THEN retval ELSE swe
    /\ pc' = CASE ret_to = "mask" -> "load_swe"
               [] ret_to = "swe" -> "aggregate"
               [] OTHER -> "returned"
    /\ src' = None
    /\ UNCHANGED << inputs, year, mask_tif, swe_tif, swe_list, time_series_data,
                    swe_df, csv, error, file_path, retval, ret_to >>

\* A caller other than swe_means calls geotiff2xr(target).
direct_call ==
    /\ pc = "geotiff2xr"
    /\ file_path' = target
    /\ ret_to' = "caller"
    /\ pc' = "g_open"
    /\ UNCHANGED << inputs, year, mask_tif, swe_tif, mask, swe, swe_list,
                    time_series_data, swe_df, csv, error, src, retval, open_files >>

\* ------------------------------------------------- arithmetic on floats
FracAdd(a, b) ==
    LET g == GCD(a.den, b.den)
    IN  Frac(a.num * (b.den \div g) + b.num * (a.den \div g), (a.den \div g) * b.den)

RECURSIVE FracSum(_, _)
FracSum(cells, S) ==
    IF S = {} THEN Frac(0, 1)
    ELSE LET p == CHOOSE q \in S : TRUE IN FracAdd(cells[p], FracSum(cells, S \ {p}))

\* Mutant of nanmean: a zero-fill mean, the excluded cells count in the divisor.
nanmean_zero_fill(cells) ==
    LET kept == { p \in DOMAIN cells : cells[p] # NaN }
    IN  IF kept = {} THEN NaN
        ELSE LET total == FracSum(cells, kept)
             IN  Frac(total.num, total.den * Cardinality(DOMAIN cells))

\* The mean of the cells that are not NaN (skipna); NaN when there is none.
nanmean(cells) ==
    LET kept == { p \in DOMAIN cells : cells[p] # NaN }
    IN  IF kept = {} THEN NaN
        ELSE LET total == FracSum(cells, kept)
             IN  Frac(total.num, total.den * Cardinality(kept))

\* The integer nearest to n/d (n >= 0, d > 0), ties to the even one.
RoundHalfEven(n, d) ==
    LET q == n \div d
        r == n % d
    IN  IF 2 * r < d THEN q
        ELSE IF 2 * r > d THEN q + 1
        ELSE IF q % 2 = 0 THEN q ELSE q + 1

\* round(value, ndigits)
round(value, ndigits) ==
    IF value = NaN THEN NaN
    ELSE Frac(RoundHalfEven(value.num * Pow10(ndigits), value.den), Pow10(ndigits))

\* The float a raster stores for the integer count p.
Float(p) == Frac(p, Pow10(Digits + 1))

\* ------------------------------------------------------- masked aggregation
Pos(s, v) == CHOOSE i \in 1..Len(s) : s[i] = v

\* arr[k] at the coordinates (yc, xc)
At(arr, k, yc, xc) ==
    arr.data.cycle[((k - 1) % Len(arr.data.cycle)) + 1][<< Pos(arr.y, yc), Pos(arr.x, xc) >>]

\* The coordinates two arrays share along one dimension (xarray aligns the
\* operands of where() with an inner join).
Shared(s, t) == { v \in Range(s) : v \in Range(t) }

\* swe.where(mask == 0) at day k, position (yc, xc) and, when the mask brings
\* a dimension of its own, layer l: the mask decides, NaN where it is not 0.
where_cell(swe_arr, mask_arr, k, l, yc, xc) ==
    LET m == IF mask_arr.dims[1] = swe_arr.dims[1] THEN At(mask_arr, k, yc, xc)
                                                  ELSE At(mask_arr, l, yc, xc)
    IN  IF m = 0 THEN Float(At(swe_arr, k, yc, xc)) ELSE NaN

\* masked_swe.mean(dim=['x', 'y']) at day k (and layer l)
mean_xy(swe_arr, mask_arr, k, l) ==
    nanmean([p \in Shared(swe_arr.y, mask_arr.y) \X Shared(swe_arr.x, mask_arr.x) |->
                where_cell(swe_arr, mask_arr, k, l, p[1], p[2])])

\* swe.where(mask == 0).mean(dim=['x', 'y']).values.tolist(): a list per day
\* of one value per mask layer; when the mask array has a "day" dimension
\* itself, the days both arrays have and one bare float per day.
mean_swe_tolist(swe_arr, mask_arr) ==
    IF mask_arr.dims[1] = swe_arr.dims[1]
    THEN [ndim |-> 1,
          values |-> [k \in 1..Min(swe_arr.n, mask_arr.n) |->
                        mean_xy(swe_arr, mask_arr, k, k)]]
    ELSE [ndim |-> 2,
          values |-> [k \in 1..swe_arr.n |->
                        [l \in 1..mask_arr.n |-> mean_xy(swe_arr, mask_arr, k, l)]]]

\* ----------------------------------------------------------------- dates
\* Days from 1970-01-01 to the date, and back (proleptic Gregorian).
Ordinal(date) ==
    LET y == IF date[2] <= 2 THEN date[1] - 1 ELSE date[1]
        era == y \div 400
        yoe == y - era * 400
        mp == (date[2] + 9) % 12
        doy == (153 * mp + 2) \div 5 + date[3] - 1
        doe == yoe * 365 + yoe \div 4 - yoe \div 100 + doy
    IN  era * 146097 + doe - 719468

Civil(z) ==
    LET s == z + 719468
        era == s \div 146097
        doe == s - era * 146097
        yoe == (doe - doe \div 1460 + doe \div 36524 - doe \div 146096) \div 365
        doy == doe - (365 * yoe + yoe \div 4 - yoe \div 100)
        mp == (5 * doy + 2) \div 153
        d == doy - (153 * mp + 2) \div 5 + 1
        m == IF mp < 10 THEN mp + 3 ELSE mp - 9
        y == yoe + era * 400
    IN  << IF m <= 2 THEN y + 1 ELSE y, m, d >>

\* Mutant of date_range: the end date is left out.
date_range_exclusive(start, end) ==
    [i \in 1..(Ordinal(end) - Ordinal(start)) |-> Civil(Ordinal(start) + i - 1)]

\* pd.date_range(start=start, end=end, freq="D")
date_range(start, end) ==
    [i \in 1..(Ordinal(end) - Ordinal(start) + 1) |-> Civil(Ordinal(start) + i - 1)]

\* ------------------------------------------------------------- swe_means
\* main calls swe_means, which starts with an empty swe_list.
main_call ==
    /\ pc = "main"
    /\ swe_list' = << >>
    /\ year' = start_year
    /\ pc' = "loop"
    /\ UNCHANGED << inputs, mask_tif, swe_tif, mask, swe, time_series_data, swe_df,
                    csv, error, file_path, src, retval, ret_to, open_files >>

\* Mutant of swe_means_skip: a missing year ends the loop (break for continue).
swe_means_skip_break ==
    /\ pc = "loop"
    /\ year <= end_year
    /\ mask_tif' = select_tif(dir, ToString(year), "MASK")
    /\ swe_tif' = select_tif(dir, ToString(year), "SWE")
    /\ mask_tif' = << >> \/ swe_tif' = << >>
    /\ year' = end_year + 1
    /\ UNCHANGED << inputs, pc, mask, swe, swe_list, time_series_data, swe_df, csv,
                    error, file_path, src, retval, ret_to, open_files >>

\* A year without a MASK or without an SWE file is skipped.
swe_means_skip ==
    /\ pc = "loop"
    /\ year <= end_year
    /\ mask_tif' = select_tif(dir, ToString(year), "MASK")
    /\ swe_tif' = select_tif(dir, ToString(year), "SWE")
    /\ mask_tif' = << >> \/ swe_tif' = << >>
    /\ year' = year + 1
    /\ UNCHANGED << inputs, pc, mask, swe, swe_list, time_series_data, swe_df, csv,
                    error, file_path, src, retval, ret_to, open_files >>

\* A year with both files is processed.
swe_means_select ==
    /\ pc = "loop"
    /\ year <= end_year
    /\ mask_tif' = select_tif(dir, ToString(year), "MASK")
    /\ swe_tif' = select_tif(dir, ToString(year), "SWE")
    /\ mask_tif' # << >> /\ swe_tif' # << >>
    /\ pc' = "load_mask"
    /\ UNCHANGED << inputs, year, mask, swe, swe_list, time_series_data, swe_df, csv,
                    error, file_path, src, retval, ret_to, open_files >>

\* mask = geotiff2xr(mask_tif[0])
swe_means_load_mask ==
    /\ pc = "load_mask"
    /\ file_path' = mask_tif[1]
    /\ ret_to' = "mask"
    /\ pc' = "g_open"
    /\ UNCHANGED << inputs, year, mask_tif, swe_tif, mask, swe, swe_list,
                    time_series_data, swe_df, csv, error, src, retval, open_files >>

\* swe = geotiff2xr(swe_tif[0])
swe_means_load_swe ==
    /\ pc = "load_swe"
    /\ file_path' = swe_tif[1]
    /\ ret_to' = "swe"
    /\ pc' = "g_open"
    /\ UNCHANGED << inputs, year, mask_tif, swe_tif, mask, swe, swe_list,
                    time_series_data, swe_df, csv, error, src, retval, open_files >>

\* masked_swe, mean_swe and the append; the loop goes on with the next year.
\* (select_tif returns only names that hold the keyword, so neither array is
\* None here.)
swe_means_aggregate ==
    /\ pc = "aggregate"
    /\ swe_list' = Append(swe_list, mean_swe_tolist(swe, mask))
    /\ year' = year + 1
    /\ pc' = "loop"
    /\ UNCHANGED << inputs, mask_tif, swe_tif, mask, swe, time_series_data, swe_df,
                    csv, error, file_path, src, retval, ret_to, open_files >>

\* Mutant of FlattenYear: day_value[-1], the last layer's value.
FlattenYear_last_layer(year_data) ==
    [k \in 1..Len(year_data.values) |->
        round(year_data.values[k][Len(year_data.values[k])], Digits)]

\* One year's round(day_value[0], 4) for every day_value.
FlattenYear(year_data) ==
    [k \in 1..Len(year_data.values) |-> round(year_data.values[k][1], Digits)]

\* The loops that fill time_series_data; day_value[0] on a bare float raises.
swe_means_flatten ==
    /\ pc = "loop"
    /\ year > end_year
    /\ IF \E i \in 1..Len(swe_list) : swe_list[i].ndim = 1
       THEN /\ Raise("TypeError")
            /\ UNCHANGED time_series_data
       ELSE /\ time_series_data' =
                  Flat([i \in 1..Len(swe_list) |-> FlattenYear(swe_list[i])])
            /\ pc' = "frame"
            /\ UNCHANGED error
    /\ UNCHANGED << inputs, year, mask_tif, swe_tif, mask, swe, swe_list, swe_df, csv,
                    file_path, src, retval, ret_to, open_files >>

\* pd.DataFrame({"Date": ..., "SWE_Mean": ...}).set_index("Date"): columns of
\* different length raise.
DataFrame(dates, values) ==
    IF Len(dates) # Len(values) THEN None
    ELSE [index |-> dates, SWE_Mean |-> values]

\* The date axis, the frame and the return to main.
swe_means_frame ==
    /\ pc = "frame"
    /\ LET dates == date_range(<< start_year, StartMonth, StartDay >>,
                               << end_year + 1, EndMonth, EndDay >>)
           frame == DataFrame(dates, time_series_data)
       IN  IF frame = None
           THEN /\ Raise("ValueError")
                /\ UNCHANGED swe_df
           ELSE /\ swe_df' = frame
                /\ pc' = "to_csv"
                /\ UNCHANGED error
    /\ UNCHANGED << inputs, year, mask_tif, swe_tif, mask, swe, swe_list,
                    time_series_data, csv, file_path, src, retval, ret_to, open_files >>

\* swe_df.to_csv(args.output_csv)
main_to_csv ==
    /\ pc = "to_csv"
    /\ csv' = swe_df
    /\ pc' = "done"
    /\ UNCHANGED << inputs, year, mask_tif, swe_tif, mask, swe, swe_list,
                    time_series_data, swe_df, error, file_path, src, retval, ret_to,
                    open_files >>

Next ==
    \/ main_call
    \/ swe_means_skip
    \/ swe_means_select
    \/ swe_means_load_mask
    \/ swe_means_load_swe
    \/ swe_means_aggregate
    \/ swe_means_flatten
    \/ swe_means_frame
    \/ main_to_csv
    \/ direct_call
    \/ geotiff2xr_open
    \/ geotiff2xr_open_fail
    \/ geotiff2xr_read
    \/ geotiff2xr_read_fail
    \/ geotiff2xr_build
    \/ geotiff2xr_exit

Spec == Init /\ [][Next]_vars

\* ======================================================================
\* What the claims speak of, stated from the input files and the calendar
\* alone.
\* ======================================================================
IsLeap(y) == (y % 4 = 0 /\ y % 100 # 0) \/ y % 400 = 0

DaysInMonth(y, m) ==
    IF m = 2 THEN (IF IsLeap(y) THEN 29 ELSE 28)
    ELSE IF m \in {4, 6, 9, 11} THEN 30 ELSE 31

\* Days from Oct 1 of y to Sep 30 of y + 1: Feb of y + 1 lies in between.
WaterYearDays(y) == 365 + (IF IsLeap(y + 1) THEN 1 ELSE 0)

\* The k-th day counted from the first of month m of year y.
RECURSIVE DayFrom(_, _, _)
DayFrom(y, m, k) ==
    IF k <= DaysInMonth(y, m) THEN << y, m, k >>
    ELSE IF m = 12 THEN DayFrom(y + 1, 1, k - DaysInMonth(y, m))
    ELSE DayFrom(y, m + 1, k - DaysInMonth(y, m))

\* The k-th day of water year y (day 1 is Oct 1 of y).
WaterDay(y, k) == DayFrom(y, 10, k)

Tomorrow(date) ==
    IF date[3] < DaysInMonth(date[1], date[2]) THEN << date[1], date[2], date[3] + 1 >>
    ELSE IF date[2] = 12 THEN << date[1] + 1, 1, 1 >>
    ELSE << date[1], date[2] + 1, 1 >>

\* The files of the directory that are year y's files of variable var, by
\* listing position.
Matching(y, var) ==
    { i \in 1..Len(listing) :
        /\ listing[i].name[Len(listing[i].name)] = ".tif"
        /\ ToString(y) \in Range(listing[i].name)
        /\ var \in Range(listing[i].name) }

First(y, var) == listing[CHOOSE i \in Matching(y, var) : \A j \in Matching(y, var) : i <= j]

HasBoth(y) == Matching(y, "SWE") # {} /\ Matching(y, "MASK") # {}

\* The years of a..b that have both files, and their number of SWE bands.
Contributing(a, b) == { y \in a..b : HasBoth(y) }

Bands(y) == First(y, "SWE").data.bands

RECURSIVE BandsOf(_)
BandsOf(Y) ==
    IF Y = {} THEN 0
    ELSE LET y == CHOOSE z \in Y : TRUE IN Bands(y) + BandsOf(Y \ {y})

\* Where year y's values start in the flat sequence: after the values of the
\* contributing years before it.
Offset(y) == BandsOf(Contributing(start_year, y - 1))

\* Band k of a file, as stored.
BandOf(f, k) == f.data.cycle[((k - 1) % Len(f.data.cycle)) + 1]

\* The masked mean of band k of SWE file sf under layer l of MASK file mf:
\* the sum over the pixel positions where the mask is 0, divided by their
\* number; 0/0 when there is no such position.
Included(sf, mf, l) ==
    { p \in Pixels(sf.height, sf.width) \cap Pixels(mf.height, mf.width) :
        BandOf(mf, l)[p] = 0 }

MaskedMean(sf, mf, l, k) ==
    LET P == Included(sf, mf, l)
    IN  IF P = {} THEN NaN
        ELSE Frac(SumOver(BandOf(sf, k), P), Cardinality(P) * Pow10(Digits + 1))

\* v is m to four decimals: a multiple of 10^-4 at most half of 10^-4 away
\* from m, or NaN for NaN.
ToFourDecimals(v, m) ==
    IF m = NaN \/ v = NaN THEN v = m
    ELSE /\ 10000 % v.den = 0
         /\ LET a == v.num * (10000 \div v.den)
                diff == a * m.den - m.num * 10000
            IN  2 * (IF diff < 0 THEN -diff ELSE diff) <= m.den

\* swe_means has returned a frame to main.
Returned == pc \in {"to_csv", "done"}

\* The length of the date axis of start_year..end_year.
RECURSIVE DaysOf(_)
DaysOf(Y) ==
    IF Y = {} THEN 0
    ELSE LET y == CHOOSE z \in Y : TRUE IN WaterYearDays(y) + DaysOf(Y \ {y})

AxisDays == DaysOf(start_year..end_year)

\* An array seen as a stack on its own grid.
Stack(arr) == [height |-> Len(arr.y), width |-> Len(arr.x), data |-> arr.data]

\* ======================================================================
\* Claims
\* ======================================================================

\* C1: when every year of start_year..end_year has both files and each SWE
\* file has as many bands as its water year has days, swe_means does not fail
\* on the frame, and the series it returns has one entry per calendar day from
\* Oct 1 of start_year to Sep 30 of end_year + 1, that is
\* (end_year + 1 - start_year) * 365 entries plus one per leap day in the
\* window, in ascending date order, the entry of the k-th day of water year y
\* holding the masked mean (to four decimals) of band k of year y's SWE file.
C1_Complete ==
    \A y \in start_year..end_year : HasBoth(y) /\ Bands(y) = WaterYearDays(y)

C1_SeriesOfCompleteArchive ==
    (entry = "main" /\ C1_Complete) =>
        /\ pc = "crashed" => error # "ValueError"
        /\ Returned =>
            LET n == (end_year + 1 - start_year) * 365
                       + Cardinality({ y \in start_year..end_year : IsLeap(y + 1) })
            IN  /\ Len(swe_df.index) = n
                /\ Len(swe_df.SWE_Mean) = n
                /\ swe_df.index[1] = << start_year, 10, 1 >>
                /\ swe_df.index[n] = << end_year + 1, 9, 30 >>
                /\ \A i \in 1..(n - 1) : swe_df.index[i + 1] = Tomorrow(swe_df.index[i])
                /\ \A y \in start_year..end_year : \A k \in 1..WaterYearDays(y) :
                      /\ swe_df.index[Offset(y) + k] = WaterDay(y, k)
                      /\ ToFourDecimals(swe_df.SWE_Mean[Offset(y) + k],
                                        MaskedMean(First(y, "SWE"), First(y, "MASK"), 1, k))

\* C1 witness: main has written the series of a complete two-year archive.
C1_Witness ==
    /\ pc = "done"
    /\ entry = "main"
    /\ C1_Complete
    /\ end_year = start_year + 1
    /\ csv = swe_df
    /\ Len(swe_df.index) = 731

\* C2 (as claimed): whenever the number of collected values differs from the
\* length of the date axis, the run ends in a SeriesAlignmentError, without a
\* returned series and without a CSV.
C2_Misaligned ==
    /\ entry = "main"
    /\ pc \in {"crashed", "to_csv", "done"}
    /\ error \notin {"RasterioIOError", "TypeError"}
    /\ Len(time_series_data) # AxisDays

C2_SeriesAlignmentError ==
    C2_Misaligned =>
        /\ error = "SeriesAlignmentError"
        /\ swe_df = None
        /\ csv = None

\* C3: for an SWE array and a mask array on the same grid, the value
\* swe_means computes for day k (under mask layer l) is the sum of band k over
\* the positions where the mask is 0 divided by the number of those
\* positions; the same mask serves every day and the values come in day
\* order, one per band.
C3_SameGrid ==
    /\ pc = "loop"
    /\ swe_list # << >>
    /\ swe.dims[1] = "day"
    /\ mask.dims[1] = "Non_seasonal_snow"
    /\ swe.y = mask.y
    /\ swe.x = mask.x

C3_MaskedMeanPerDay ==
    C3_SameGrid =>
        LET mean_swe == swe_list[Len(swe_list)].values
        IN  /\ Len(mean_swe) = swe.n
            /\ \A k \in 1..swe.n :
                  /\ Len(mean_swe[k]) = mask.n
                  /\ \A l \in 1..mask.n :
                        mean_swe[k][l] = MaskedMean(Stack(swe), Stack(mask), l, k)

\* C3 witness: a two-pixel grid with one pixel excluded, two days; day 1 is
\* the value of the included pixel alone, which differs from the excluded one.
C3_Witness ==
    /\ C3_SameGrid
    /\ swe.n = 2
    /\ Cardinality(Included(Stack(swe), Stack(mask), 1)) = 1
    /\ Cardinality(Pixels(Len(swe.y), Len(swe.x))) = 2
    /\ swe_list[Len(swe_list)].values[1][1] = Float(17)
    /\ \E p \in Pixels(Len(swe.y), Len(swe.x)) : BandOf(Stack(swe), 1)[p] = 0

\* C4: a year without an SWE or without a MASK file is skipped without an
\* exception and adds nothing; the later years are still processed; the flat
\* sequence is the concatenation, in ascending year order, of the per-day
\* sequences of the years that have both files.
Rank(y) == Cardinality(Contributing(start_year, y))

C4_SkipAndConcatenate ==
    /\ pc = "loop" =>
          /\ error = NoError
          /\ Len(swe_list) = Cardinality(Contributing(start_year, year - 1))
    /\ pc = "frame" =>
          /\ year = end_year + 1
          /\ Len(swe_list) = Cardinality(Contributing(start_year, end_year))
          /\ Len(time_series_data) = BandsOf(Contributing(start_year, end_year))
          /\ \A y \in Contributing(start_year, end_year) :
                /\ Len(swe_list[Rank(y)].values) = Bands(y)
                /\ \A k \in 1..Bands(y) :
                      time_series_data[Offset(y) + k]
                        = round(swe_list[Rank(y)].values[k][1], 4)

\* C4 witness: the first year of a two-year range was skipped and the second
\* year's values make up the whole flat sequence.
C4_Witness ==
    /\ pc = "frame"
    /\ end_year = start_year + 1
    /\ ~HasBoth(start_year)
    /\ HasBoth(end_year)
    /\ Len(time_series_data) = Bands(end_year)
    /\ Len(time_series_data) > 0

\* The kind of array the file name alone decides.
C5_KindOfName(name) ==
    IF "SWE" \in Range(name) THEN "SWE"
    ELSE IF "MASK" \in Range(name) THEN "Non_seasonal_snow"
    ELSE "None"

C5_KindOf(value) == IF value = None THEN "None" ELSE value.name

\* C5 (as claimed): geotiff2xr classifies by the file name, whatever the
\* directory: SWE in the name gives an SWE array over days 1..N, MASK a mask
\* array over layers 1..N, neither gives None; so what select_tif returns for
\* "MASK" is built as a mask array.
C5_ClassifiedByFileName ==
    pc = "g_exit" =>
        LET f == Raster(file_path)
        IN  /\ C5_KindOf(retval) = C5_KindOfName(f.name)
            /\ retval # None => retval.n = f.data.bands
            /\ ret_to = "mask" => C5_KindOf(retval) = "Non_seasonal_snow"
            /\ ret_to = "swe" => C5_KindOf(retval) = "SWE"

\* C6 (as claimed): no NaN is placed in the returned series.
C6_NoSilentNaN ==
    Returned => \A i \in 1..Len(swe_df.SWE_Mean) : swe_df.SWE_Mean[i] # NaN

\* C7 (as claimed): with an SWE array and a MASK array of different shape the
\* run ends in a ShapeMismatchError and no mean is computed from them.
C7_ShapesDiffer ==
    /\ swe # None
    /\ mask # None
    /\ (Len(swe.y) # Len(mask.y) \/ Len(swe.x) # Len(mask.x))

C7_ShapeMismatchError ==
    (pc \in {"loop", "frame", "crashed", "to_csv", "done"} /\ C7_ShapesDiffer) =>
        /\ error = "ShapeMismatchError"
        /\ swe_list = << >>

\* C8: at most one raster file is open at any moment; a file is open only
\* while geotiff2xr is inside its with block, and it is that call's file; on
\* every way out of geotiff2xr (a return of an SWE array, a mask array or
\* None, an exception while reading) no file is left open.
C8_OneFileOpen ==
    /\ Len(open_files) <= 1
    /\ pc \in {"g_read", "g_build", "g_exit"} => open_files = << file_path >>
    /\ pc \notin {"g_read", "g_build", "g_exit"} => open_files = << >>

\* C8 witness: the year's SWE file is open, the mask file read before it is
\* closed.
C8_Witness ==
    /\ pc = "g_read"
    /\ ret_to = "swe"
    /\ mask # None
    /\ open_files = << swe_tif[1] >>
    /\ mask_tif[1] # swe_tif[1]

\* C9 (as claimed): in a returned series the value of band k of year y's SWE
\* file carries the date of the k-th day counted from Oct 1 of y.
C9_OwnDate ==
    Returned =>
        \A y \in Contributing(start_year, end_year) : \A k \in 1..Bands(y) :
            swe_df.index[Offset(y) + k] = WaterDay(y, k)

\* C10: a year's values are the masked means of the first matching SWE file
\* under the first layer of the first matching MASK file, whatever the other
\* layers and the other matching files hold, and the year adds as many values
\* as that SWE file has bands.
C10_FirstFileFirstLayer ==
    pc = "frame" =>
        /\ Len(time_series_data) = BandsOf(Contributing(start_year, end_year))
        /\ \A y \in Contributing(start_year, end_year) : \A k \in 1..Bands(y) :
              ToFourDecimals(time_series_data[Offset(y) + k],
                             MaskedMean(First(y, "SWE"), First(y, "MASK"), 1, k))

\* C10 witness: a mask of two layers that give different means, and a flat
\* sequence of one value per band.
C10_Witness ==
    /\ pc = "frame"
    /\ HasBoth(start_year)
    /\ First(start_year, "MASK").data.bands = 2
    /\ MaskedMean(First(start_year, "SWE"), First(start_year, "MASK"), 1, 1)
         # MaskedMean(First(start_year, "SWE"), First(start_year, "MASK"), 2, 1)
    /\ Len(time_series_data) = Bands(start_year)
====
